---- MODULE Spec2Model ----
(***************************************************************************)
(* Render-time interpreter of gonja: the Context scope chain, the          *)
(* Environment registries, the Renderer visitor and the import statements. *)
(***************************************************************************)
EXTENDS Integers, Sequences, FiniteSets, TLC

VARIABLES
    data,        \* Context.data of every allocated frame: frame -> (name -> value)
    parent,      \* Context.parent of every allocated frame, 0 for nil
    ctxLast,     \* the Update the client made: receiver, argument and the frames before it
    Filters,     \* Environment.Filters
    Statements,  \* Environment.Statements
    Tests,       \* Environment.Tests
    regLast,     \* the last registry operation, its arguments, result and the registries before it
    RootNode,    \* Renderer.RootNode: the template handed to the render
    library,     \* the template sources the Loader can reach: filename -> macro table
    renderers,   \* every Renderer created so far: Config, Context (frame), Output (sink)
    sinks,       \* the strings.Builder objects: sink -> text written so far
    stack,       \* the nodes.Walk activations: renderer and children still to visit
    status,      \* "idle" before Execute, "running", then "done" | "error" | "panic"
    visitLast    \* the last Visit: node, renderer, outcome and the state before it

vars == <<data, parent, ctxLast, Filters, Statements, Tests, regLast,
          RootNode, library, renderers, sinks, stack, status, visitLast>>

ctxVars == <<data, parent, ctxLast>>
regVars == <<Filters, Statements, Tests, regLast>>
renderVars == <<RootNode, library, renderers, sinks, stack, status, visitLast>>

(***************************************************************************)
(* Bounds of the model.                                                    *)
(***************************************************************************)
MaxFrames == 3
MaxNodes == 4
MaxClauses == 2

Names == {"x", "y"}
IntValues == {[kind |-> "int", v |-> 1], [kind |-> "int", v |-> 2]}

\* Go's nil interface value
Nil == [kind |-> "nil"]

\* Go maps as functions with a finite domain
EmptyMap == [k \in {} |-> Nil]
MapSet(m, k, v) == [x \in (DOMAIN m) \cup {k} |-> IF x = k THEN v ELSE m[x]]
MapsOver(keys, values) == UNION {[s -> values] : s \in SUBSET keys}

(***************************************************************************)
(* Context                                                                 *)
(***************************************************************************)
Frames(d) == 1..Len(d)

\* NewContext / EmptyContext: a frame with the given map and no parent
NewContext(d, p, m) == [data |-> Append(d, m), parent |-> Append(p, 0), frame |-> Len(d) + 1]

\* Context.Has
RECURSIVE Has(_, _, _, _)
Has(d, p, ctx, name) ==
    LET exists == name \in DOMAIN d[ctx] IN
    IF ~exists /\ p[ctx] # 0 THEN Has(d, p, p[ctx], name) ELSE exists

\* Context.Get: (value, exists)
GetOneLevel(d, p, ctx, name) ==
    IF name \in DOMAIN d[ctx] THEN [value |-> d[ctx][name], found |-> TRUE]
    ELSE IF p[ctx] # 0 /\ name \in DOMAIN d[p[ctx]]
    THEN [value |-> d[p[ctx]][name], found |-> TRUE]
    ELSE [value |-> Nil, found |-> FALSE]
RECURSIVE Get(_, _, _, _)
Get(d, p, ctx, name) ==
    IF name \in DOMAIN d[ctx] THEN [value |-> d[ctx][name], found |-> TRUE]
    ELSE IF p[ctx] # 0 THEN Get(d, p, p[ctx], name)
    ELSE [value |-> Nil, found |-> FALSE]

\* Context.Set: the new data of all frames
SetParentToo(d, p, ctx, name, value) ==
    [f \in DOMAIN d |-> IF f = ctx \/ f = p[ctx] THEN MapSet(d[f], name, value) ELSE d[f]]
Set(d, p, ctx, name, value) == [d EXCEPT ![ctx] = MapSet(@, name, value)]

\* Context.Inherit
Inherit(d, p, ctx) == [data |-> Append(d, EmptyMap), parent |-> Append(p, ctx), frame |-> Len(d) + 1]

\* Context.Update: the new data of all frames
RECURSIVE CopyEntries(_, _, _)
CopyEntries(m, other, keys) ==
    IF keys = {} THEN m
    ELSE LET k == CHOOSE x \in keys : TRUE IN
         CopyEntries(MapSet(m, k, other[k]), other, keys \ {k})
UpdateFromChain(d, p, ctx, other) ==
    [d EXCEPT ![ctx] = [k \in (DOMAIN @) \cup {n \in Names : Has(d, p, other, n)} |->
                           IF Has(d, p, other, k) THEN Get(d, p, other, k).value ELSE @[k]]]
Update(d, p, ctx, other) == [d EXCEPT ![ctx] = CopyEntries(@, d[other], DOMAIN d[other])]

(***************************************************************************)
(* The Context operations as steps of a client that builds frames with     *)
(* NewContext, Inherit and Set and then merges one frame into another with *)
(* Update.                                                                 *)
(***************************************************************************)
NoCtxOp == [op |-> "none", ctx |-> 0, other |-> 0, pre |-> <<>>]
Building == ctxLast.op = "none"

CtxNewContext ==
    /\ Building
    /\ Len(data) < MaxFrames
    /\ \E m \in MapsOver(Names, IntValues) :
         LET n == NewContext(data, parent, m) IN
         /\ data' = n.data
         /\ parent' = n.parent
    /\ UNCHANGED <<ctxLast, regVars, renderVars>>

CtxInherit ==
    /\ Building
    /\ Len(data) < MaxFrames
    /\ \E c \in Frames(data) :
         LET n == Inherit(data, parent, c) IN
         /\ data' = n.data
         /\ parent' = n.parent
    /\ UNCHANGED <<ctxLast, regVars, renderVars>>

CtxSet ==
    /\ Building
    /\ \E c \in Frames(data), name \in Names, value \in IntValues :
         data' = Set(data, parent, c, name, value)
    /\ UNCHANGED <<parent, ctxLast, regVars, renderVars>>

\* a.Update(b) on any two frames; the client keeps what the frames were
CtxUpdate ==
    /\ Building
    /\ \E a \in Frames(data), b \in Frames(data) :
         /\ data' = Update(data, parent, a, b)
         /\ ctxLast' = [op |-> "Update", ctx |-> a, other |-> b, pre |-> data]
    /\ UNCHANGED <<parent, regVars, renderVars>>

(***************************************************************************)
(* Environment: the three registries                                       *)
(***************************************************************************)
RegNames == {"x", "y"}
Fns == {"f1", "f2"}
NoError == "nil"

\* FilterSet.Exists
FilterSetExists(fs, name) == name \in DOMAIN fs

\* FilterSet.Register: the registry afterwards and the error returned
FilterSetRegisterOverwrite(fs, name, fn) == [set |-> MapSet(fs, name, fn), err |-> NoError]
FilterSetRegister(fs, name, fn) ==
    IF FilterSetExists(fs, name)
    THEN [set |-> fs, err |-> "filter is already registered"]
    ELSE [set |-> MapSet(fs, name, fn), err |-> NoError]

\* FilterSet.Replace
FilterSetReplace(fs, name, fn) ==
    IF ~FilterSetExists(fs, name)
    THEN [set |-> fs, err |-> "filter does not exist"]
    ELSE [set |-> MapSet(fs, name, fn), err |-> NoError]

\* FilterSet.Update
FilterSetUpdate(fs, other) == CopyEntries(fs, other, DOMAIN other)

\* StatementSet.Exists
StatementSetExists(ss, name) == name \in DOMAIN ss

\* StatementSet.Register
StatementSetRegister(ss, name, parser) ==
    IF StatementSetExists(ss, name)
    THEN [set |-> ss, err |-> "Statement is already registered"]
    ELSE [set |-> MapSet(ss, name, parser), err |-> NoError]

\* StatementSet.Replace
StatementSetReplace(ss, name, parser) ==
    IF ~StatementSetExists(ss, name)
    THEN [set |-> ss, err |-> "Statement does not exist"]
    ELSE [set |-> MapSet(ss, name, parser), err |-> NoError]

\* StatementSet.Update
StatementSetUpdate(ss, other) == CopyEntries(ss, other, DOMAIN other)

\* TestSet.Exists
TestSetExists(ts, name) == name \in DOMAIN ts

\* TestSet.Register
TestSetRegister(ts, name, fn) ==
    IF TestSetExists(ts, name)
    THEN [set |-> ts, err |-> "test is already registered"]
    ELSE [set |-> MapSet(ts, name, fn), err |-> NoError]

\* TestSet.Replace
TestSetReplace(ts, name, fn) ==
    IF ~TestSetExists(ts, name)
    THEN [set |-> ts, err |-> "test does not exist"]
    ELSE [set |-> MapSet(ts, name, fn), err |-> NoError]

\* TestSet.Update
TestSetUpdate(ts, other) == CopyEntries(ts, other, DOMAIN other)

NoRegOp == [set |-> "none", op |-> "none", name |-> "", fn |-> "", err |-> NoError,
            pre |-> [Filters |-> EmptyMap, Statements |-> EmptyMap, Tests |-> EmptyMap]]
RegOp(set, op, name, fn, err) ==
    [set |-> set, op |-> op, name |-> name, fn |-> fn, err |-> err,
     pre |-> [Filters |-> Filters, Statements |-> Statements, Tests |-> Tests]]

FilterRegister ==
    /\ \E name \in RegNames, fn \in Fns :
         LET r == FilterSetRegister(Filters, name, fn) IN
         /\ Filters' = r.set
         /\ regLast' = RegOp("Filters", "Register", name, fn, r.err)
    /\ UNCHANGED <<Statements, Tests, ctxVars, renderVars>>

FilterReplace ==
    /\ \E name \in RegNames, fn \in Fns :
         LET r == FilterSetReplace(Filters, name, fn) IN
         /\ Filters' = r.set
         /\ regLast' = RegOp("Filters", "Replace", name, fn, r.err)
    /\ UNCHANGED <<Statements, Tests, ctxVars, renderVars>>

FilterUpdate ==
    /\ \E other \in MapsOver(RegNames, Fns) :
         /\ Filters' = FilterSetUpdate(Filters, other)
         /\ regLast' = RegOp("Filters", "Update", "", "", NoError)
    /\ UNCHANGED <<Statements, Tests, ctxVars, renderVars>>

StatementRegister ==
    /\ \E name \in RegNames, fn \in Fns :
         LET r == StatementSetRegister(Statements, name, fn) IN
         /\ Statements' = r.set
         /\ regLast' = RegOp("Statements", "Register", name, fn, r.err)
    /\ UNCHANGED <<Filters, Tests, ctxVars, renderVars>>

StatementReplace ==
    /\ \E name \in RegNames, fn \in Fns :
         LET r == StatementSetReplace(Statements, name, fn) IN
         /\ Statements' = r.set
         /\ regLast' = RegOp("Statements", "Replace", name, fn, r.err)
    /\ UNCHANGED <<Filters, Tests, ctxVars, renderVars>>

StatementUpdate ==
    /\ \E other \in MapsOver(RegNames, Fns) :
         /\ Statements' = StatementSetUpdate(Statements, other)
         /\ regLast' = RegOp("Statements", "Update", "", "", NoError)
    /\ UNCHANGED <<Filters, Tests, ctxVars, renderVars>>

TestRegister ==
    /\ \E name \in RegNames, fn \in Fns :
         LET r == TestSetRegister(Tests, name, fn) IN
         /\ Tests' = r.set
         /\ regLast' = RegOp("Tests", "Register", name, fn, r.err)
    /\ UNCHANGED <<Filters, Statements, ctxVars, renderVars>>

TestReplace ==
    /\ \E name \in RegNames, fn \in Fns :
         LET r == TestSetReplace(Tests, name, fn) IN
         /\ Tests' = r.set
         /\ regLast' = RegOp("Tests", "Replace", name, fn, r.err)
    /\ UNCHANGED <<Filters, Statements, ctxVars, renderVars>>

TestUpdate ==
    /\ \E other \in MapsOver(RegNames, Fns) :
         /\ Tests' = TestSetUpdate(Tests, other)
         /\ regLast' = RegOp("Tests", "Update", "", "", NoError)
    /\ UNCHANGED <<Filters, Statements, ctxVars, renderVars>>

(***************************************************************************)
(* Value: the tagged result of expression evaluation.  Text is a sequence  *)
(* of one-character strings.                                               *)
(***************************************************************************)
Value(kind, b, s, safe, n) == [kind |-> kind, b |-> b, s |-> s, safe |-> safe, n |-> n]
ValNil == Value("Nil", FALSE, <<>>, FALSE, 0)
ValBool(b) == Value("Bool", b, <<>>, FALSE, 0)
ValString(s) == Value("String", FALSE, s, FALSE, 0)
ValSafe(s) == Value("String", FALSE, s, TRUE, 0)
ValNumber(n) == Value("Number", FALSE, <<>>, FALSE, n)
ValError == Value("Error", FALSE, <<"!">>, FALSE, 0)

IsError(v) == v.kind = "Error"
IsNil(v) == v.kind = "Nil"
IsString(v) == v.kind = "String"
IsTrue(v) ==
    CASE v.kind = "Bool" -> v.b
      [] v.kind = "String" -> Len(v.s) > 0
      [] v.kind = "Number" -> v.n # 0
      [] OTHER -> FALSE

Digit(n) == <<"0", "1", "2", "3", "4", "5", "6", "7", "8", "9">>[n + 1]

\* Value.String
String(v) ==
    CASE v.kind = "Bool" -> IF v.b THEN <<"T", "r", "u", "e">> ELSE <<"F", "a", "l", "s", "e">>
      [] v.kind = "String" -> v.s
      [] v.kind = "Number" -> <<Digit(v.n)>>
      [] v.kind = "Error" -> v.s
      [] OTHER -> <<>>

EscapeChar(c) ==
    CASE c = "&" -> <<"&", "a", "m", "p", ";">>
      [] c = "<" -> <<"&", "l", "t", ";">>
      [] c = ">" -> <<"&", "g", "t", ";">>
      [] OTHER -> <<c>>

RECURSIVE EscapeText(_)
EscapeText(s) == IF s = <<>> THEN <<>> ELSE EscapeChar(Head(s)) \o EscapeText(Tail(s))

\* Value.Escaped
Escaped(v) == EscapeText(String(v))

(***************************************************************************)
(* AST nodes.  An expression is a literal carrying the Value the Evaluator *)
(* gives for it; a nil pointer is Nil.                                     *)
(***************************************************************************)
Literal(v) == [kind |-> "Literal", val |-> v]
Comment == [kind |-> "Comment"]
Data(val, left, right) == [kind |-> "Data", Val |-> val, Left |-> left, Right |-> right]
Output(cond, expr, alt) ==
    [kind |-> "Output", Condition |-> cond, Expression |-> expr, Alternative |-> alt]
\* src keeps the clauses a from-import tag was parsed from (Nil otherwise)
StatementBlock(stmt, src) == [kind |-> "StatementBlock", Stmt |-> stmt, src |-> src]
Wrapper(nodes) == [kind |-> "Wrapper", Nodes |-> nodes]
Template(nodes, par) == [kind |-> "Template", Nodes |-> nodes, Parent |-> par]
Macro(name, kwargs) == [kind |-> "Macro", Name |-> name, Kwargs |-> kwargs]

\* Statement values held by a StatementBlock
ImportStmt(filename, as, withContext) ==
    [kind |-> "ImportStmt", filenameExpression |-> filename, as |-> as, withContext |-> withContext]
FromImportStmt(filename, withContext, As) ==
    [kind |-> "FromImportStmt", FilenameExpression |-> filename, WithContext |-> withContext, As |-> As]
\* a statement whose Execute renders its body in a nested scope with r.ExecuteWrapper
ScopeStmt(nodes) == [kind |-> "ScopeStmt", wrapper |-> Wrapper(nodes)]
\* a parser-level value that does not implement Statement
NotAStatement == [kind |-> "NotAStatement"]

IsStatement(stmt) == stmt.kind \in {"ImportStmt", "FromImportStmt", "ScopeStmt"}

\* Evaluator.Eval through Renderer.Eval
Eval(node) == node.val

(***************************************************************************)
(* Renderer                                                                *)
(***************************************************************************)
\* config.Config.Inherit: a copy of the configuration
ConfigInherit(config) == [AutoEscape |-> config.AutoEscape]

Self(r) == [kind |-> "self", renderer |-> r]

\* strings.Builder.WriteString on the builder a renderer points to
WriteString(sk, out, text) ==
    [i \in (DOMAIN sk) \cup {out} |->
        IF i = out THEN (IF i \in DOMAIN sk THEN sk[i] ELSE <<>>) \o text ELSE sk[i]]

\* Renderer.Inherit: the sub renderer, and the frames with its child Context
RendererInheritOwnOutput(rs, d, p, r) ==
    LET c == Inherit(d, p, rs[r].Context) IN
    [renderers |-> Append(rs, [Config |-> ConfigInherit(rs[r].Config),
                               Context |-> c.frame,
                               Output |-> Len(rs) + 1]),
     data |-> c.data, parent |-> c.parent, sub |-> Len(rs) + 1]
RendererInherit(rs, d, p, r) ==
    LET c == Inherit(d, p, rs[r].Context) IN
    [renderers |-> Append(rs, [Config |-> ConfigInherit(rs[r].Config),
                               Context |-> c.frame,
                               Output |-> rs[r].Output]),
     data |-> c.data, parent |-> c.parent, sub |-> Len(rs) + 1]

Whitespace == {" ", "\n", "\t"}

\* strings.TrimLeft(output, " \n\t")
RECURSIVE TrimLeft(_)
TrimLeft(s) == IF s # <<>> /\ Head(s) \in Whitespace THEN TrimLeft(Tail(s)) ELSE s

\* strings.TrimRight(output, " \n\t")
RECURSIVE TrimRight(_)
TrimRight(s) ==
    IF s # <<>> /\ s[Len(s)] \in Whitespace THEN TrimRight(SubSeq(s, 1, Len(s) - 1)) ELSE s

\* Renderer.Visit, case *nodes.Data: the text written
DataOutput(n) ==
    LET o1 == IF n.Left THEN TrimLeft(n.Val) ELSE n.Val IN
    IF n.Right THEN TrimRight(o1) ELSE o1

\* Renderer.Visit, case *nodes.Output: which expressions are evaluated, the
\* error returned, the value chosen and the text written
OutputResult(err, evals, value, form, text) ==
    [err |-> err, evals |-> evals, value |-> value, form |-> form, text |-> text]

WriteValueIgnoringSafe(config, evals, value) ==
    IF IsError(value)
    THEN OutputResult("Unable to render expression", evals, value, "none", <<>>)
    ELSE IF config.AutoEscape /\ IsString(value)
    THEN OutputResult(NoError, evals, value, "escaped", Escaped(value))
    ELSE OutputResult(NoError, evals, value, "raw", String(value))
WriteValue(config, evals, value) ==
    IF IsError(value)
    THEN OutputResult("Unable to render expression", evals, value, "none", <<>>)
    ELSE IF config.AutoEscape /\ IsString(value) /\ ~value.safe
    THEN OutputResult(NoError, evals, value, "escaped", Escaped(value))
    ELSE OutputResult(NoError, evals, value, "raw", String(value))

VisitOutputNoAlternativeCheck(config, n) ==
    IF n.Condition # Nil
    THEN LET condition == Eval(n.Condition) IN
         IF IsError(condition)
         THEN OutputResult("Unable to render condition", <<"Condition">>, Nil, "none", <<>>)
         ELSE IF ~IsNil(condition) /\ IsTrue(condition)
         THEN WriteValue(config, <<"Condition", "Expression">>, Eval(n.Expression))
         ELSE IF n.Alternative # Nil
              THEN WriteValue(config, <<"Condition", "Alternative">>, Eval(n.Alternative))
              ELSE WriteValue(config, <<"Condition", "Expression">>, Eval(n.Expression))
    ELSE WriteValue(config, <<"Expression">>, Eval(n.Expression))
VisitOutput(config, n) ==
    IF n.Condition # Nil
    THEN LET condition == Eval(n.Condition) IN
         IF IsError(condition)
         THEN OutputResult("Unable to render condition", <<"Condition">>, Nil, "none", <<>>)
         ELSE IF ~IsNil(condition) /\ IsTrue(condition)
         THEN WriteValue(config, <<"Condition", "Expression">>, Eval(n.Expression))
         ELSE IF IsNil(condition) \/ ~IsTrue(condition)
         THEN IF n.Alternative # Nil
              THEN WriteValue(config, <<"Condition", "Alternative">>, Eval(n.Alternative))
              ELSE OutputResult(NoError, <<"Condition">>, Nil, "none", <<>>)
         ELSE OutputResult("Unable to evaluation condition as boolean", <<"Condition">>,
                           Nil, "none", <<>>)
    ELSE WriteValue(config, <<"Expression">>, Eval(n.Expression))

\* Renderer.Execute: the root-most ancestor of the bound template
RECURSIVE RootOf(_)
RootOf(root) == IF root.Parent # Nil THEN RootOf(root.Parent) ELSE root

(***************************************************************************)
(* Import and from-import statements                                       *)
(***************************************************************************)
MacroNames == {"foo", "bar"}

\* every order in which a range loop may visit the keys of a Go map
Orders(keys) ==
    {q \in [1..Cardinality(keys) -> keys] : \A k \in keys : \E i \in DOMAIN q : q[i] = k}

\* loaders.Loader.Inherit(filename): fails for a name the loader cannot resolve
LoaderInherit(lib, filename) ==
    IF filename \in lib.unresolvable THEN [err |-> "failed to inherit loader"]
    ELSE [err |-> NoError]

\* exec.NewTemplate(filename, ...): loads and parses the target, or fails
NewTemplate(lib, filename) ==
    IF filename = lib.file THEN [err |-> NoError, Macros |-> lib.macros]
    ELSE [err |-> "unable to load template", Macros |-> EmptyMap]

\* exec.MacroNodeToFunc(node, r): the callable closing over r, an error when a
\* default argument of the macro evaluates to an Error value, a nil
\* dereference when there is no node
MacroNodeToFunc(node, r) ==
    IF node = Nil THEN [result |-> "panic", fn |-> Nil]
    ELSE IF \E i \in DOMAIN node.Kwargs : IsError(Eval(node.Kwargs[i]))
    THEN [result |-> "error", fn |-> Nil]
    ELSE [result |-> "ok", fn |-> [kind |-> "macro", node |-> node, renderer |-> r]]

\* ImportStmt.Execute, lines 48-55: the loop over template.Macros()
RECURSIVE ImportLoop(_, _, _, _)
ImportLoop(macros, imported, order, r) ==
    IF order = <<>> THEN [result |-> "ok", macros |-> macros]
    ELSE LET name == Head(order)
             fn == MacroNodeToFunc(imported[name], r) IN
         IF fn.result # "ok" THEN [result |-> fn.result, macros |-> macros]
         ELSE ImportLoop(MapSet(macros, name, fn.fn), imported, Tail(order), r)

\* ImportStmt.Execute: the outcome and the frames afterwards; order is the
\* iteration order of the macro table
ImportExecuteSpread(d, p, rs, r, stmt, lib, order) ==
    LET filenameValue == Eval(stmt.filenameExpression) IN
    IF IsError(filenameValue) THEN [result |-> "error", data |-> d]
    ELSE LET filename == String(filenameValue) IN
    IF LoaderInherit(lib, filename).err # NoError THEN [result |-> "error", data |-> d]
    ELSE LET template == NewTemplate(lib, filename) IN
    IF template.err # NoError THEN [result |-> "error", data |-> d]
    ELSE LET loop == ImportLoop(EmptyMap, template.Macros, order, r) IN
    IF loop.result # "ok" THEN [result |-> loop.result, data |-> d]
    ELSE [result |-> "ok",
          data |-> [d EXCEPT ![rs[r].Context] =
                       CopyEntries(@, loop.macros, DOMAIN loop.macros)]]
ImportExecute(d, p, rs, r, stmt, lib, order) ==
    LET filenameValue == Eval(stmt.filenameExpression) IN
    IF IsError(filenameValue) THEN [result |-> "error", data |-> d]
    ELSE LET filename == String(filenameValue) IN
    IF LoaderInherit(lib, filename).err # NoError THEN [result |-> "error", data |-> d]
    ELSE LET template == NewTemplate(lib, filename) IN
    IF template.err # NoError THEN [result |-> "error", data |-> d]
    ELSE LET loop == ImportLoop(EmptyMap, template.Macros, order, r) IN
    IF loop.result # "ok" THEN [result |-> loop.result, data |-> d]
    ELSE [result |-> "ok",
          data |-> Set(d, p, rs[r].Context, stmt.as,
                       [kind |-> "macros", table |-> loop.macros])]

\* FromImportStmt.Execute, lines 98-105: the loop over stmt.As
RECURSIVE FromImportLoop(_, _, _, _, _, _, _)
FromImportLoop(d, p, ctx, imported, As, order, r) ==
    IF order = <<>> THEN [result |-> "ok", data |-> d]
    ELSE LET alias == Head(order)
             name == As[alias]
             node == IF name \in DOMAIN imported THEN imported[name] ELSE Nil
             fn == MacroNodeToFunc(node, r) IN
         IF fn.result # "ok" THEN [result |-> fn.result, data |-> d]
         ELSE FromImportLoop(Set(d, p, ctx, alias, fn.fn), p, ctx, imported, As, Tail(order), r)

\* FromImportStmt.Execute; order is the iteration order of stmt.As
FromImportExecute(d, p, rs, r, stmt, lib, order) ==
    LET filenameValue == Eval(stmt.FilenameExpression) IN
    IF IsError(filenameValue) THEN [result |-> "error", data |-> d]
    ELSE LET filename == String(filenameValue) IN
    IF LoaderInherit(lib, filename).err # NoError THEN [result |-> "error", data |-> d]
    ELSE LET template == NewTemplate(lib, filename) IN
    IF template.err # NoError THEN [result |-> "error", data |-> d]
    ELSE FromImportLoop(d, p, rs[r].Context, template.Macros, stmt.As, order, r)

\* fromParser, lines 164-198: the alias table built from the clauses
\* "name" and "name as alias" (alias "" when there is no "as")
RECURSIVE ParseClauses(_, _)
ParseClauses(As, clauses) ==
    IF clauses = <<>> THEN As
    ELSE LET c == Head(clauses) IN
         ParseClauses(IF c.alias # "" THEN MapSet(As, c.alias, c.name)
                      ELSE MapSet(As, c.name, c.name),
                      Tail(clauses))

\* fromParser: the statement for  from <filename> import <clauses> [with|without context]
FromParserKeyedByName(filename, clauses, modifier) ==
    FromImportStmt(filename, modifier = "with",
                   [n \in {clauses[i].name : i \in DOMAIN clauses} |-> n])
FromParser(filename, clauses, modifier) ==
    FromImportStmt(filename, modifier = "with", ParseClauses(EmptyMap, clauses))

(***************************************************************************)
(* The render: NewRenderer, Execute and nodes.Walk driving Renderer.Visit. *)
(* stack holds the open Walk activations, the innermost last.              *)
(***************************************************************************)
\* NewRenderer: the renderer, and the frames after Context.Set("self", ...)
NewRenderer(d, p, ctx, output, config) ==
    [renderers |-> <<[Config |-> ConfigInherit(config), Context |-> ctx, Output |-> output]>>,
     data |-> Set(d, p, ctx, "self", Self(1))]

NoVisit ==
    [kind |-> "none", node |-> Nil, r |-> 0, result |-> "ok", out |-> Nil,
     pre |-> [sinks |-> <<>>, data |-> <<>>]]
Visited(node, r, result, out) ==
    [kind |-> node.kind, node |-> node, r |-> r, result |-> result, out |-> out,
     pre |-> [sinks |-> sinks, data |-> data]]

Top == stack[Len(stack)]
Current == Head(Top.todo)
Visiting(kind) == status = "running" /\ Top.todo # <<>> /\ Current.kind = kind
Advance == [stack EXCEPT ![Len(stack)].todo = Tail(@)]

\* Renderer.Execute: Walk(r, root) visits the root template, which Visit
\* leaves to the default case, and goes on to its children
Execute ==
    /\ status = "ready"
    /\ LET root == RootOf(RootNode) IN
       /\ stack' = <<[r |-> 1, todo |-> root.Nodes]>>
       /\ visitLast' = Visited(root, 1, "ok", Nil)
    /\ status' = "running"
    /\ UNCHANGED <<RootNode, library, renderers, sinks, ctxVars, regVars>>

\* case *nodes.Comment
StepComment ==
    /\ Visiting("Comment")
    /\ stack' = Advance
    /\ visitLast' = Visited(Current, Top.r, "ok", Nil)
    /\ UNCHANGED <<RootNode, library, renderers, sinks, status, ctxVars, regVars>>

\* case *nodes.Data
StepData ==
    /\ Visiting("Data")
    /\ sinks' = WriteString(sinks, renderers[Top.r].Output, DataOutput(Current))
    /\ stack' = Advance
    /\ visitLast' = Visited(Current, Top.r, "ok", Nil)
    /\ UNCHANGED <<RootNode, library, renderers, status, ctxVars, regVars>>

\* case *nodes.Output
StepOutput ==
    /\ Visiting("Output")
    /\ LET res == VisitOutput(renderers[Top.r].Config, Current) IN
       /\ visitLast' = Visited(Current, Top.r, IF res.err = NoError THEN "ok" ELSE "error", res)
       /\ IF res.err # NoError
          THEN /\ status' = "error"
               /\ stack' = <<>>
               /\ sinks' = sinks
          ELSE /\ status' = status
               /\ stack' = Advance
               /\ sinks' = IF res.form = "none" THEN sinks
                           ELSE WriteString(sinks, renderers[Top.r].Output, res.text)
    /\ UNCHANGED <<RootNode, library, renderers, ctxVars, regVars>>

\* case *nodes.StatementBlock whose Stmt does not implement Statement
StepNotAStatement ==
    /\ Visiting("StatementBlock")
    /\ ~IsStatement(Current.Stmt)
    /\ stack' = Advance
    /\ visitLast' = Visited(Current, Top.r, "ok", Nil)
    /\ UNCHANGED <<RootNode, library, renderers, sinks, status, ctxVars, regVars>>

\* case *nodes.StatementBlock, a statement that calls r.ExecuteWrapper(wrapper):
\* Walk(r.Inherit(), wrapper) visits the wrapper (default case) and its children
StepScopeStmt ==
    /\ Visiting("StatementBlock")
    /\ Current.Stmt.kind = "ScopeStmt"
    /\ LET sub == RendererInherit(renderers, data, parent, Top.r) IN
       /\ renderers' = sub.renderers
       /\ data' = sub.data
       /\ parent' = sub.parent
       /\ stack' = Append(Advance, [r |-> sub.sub, todo |-> Current.Stmt.wrapper.Nodes])
    /\ visitLast' = Visited(Current, Top.r, "ok", Nil)
    /\ UNCHANGED <<RootNode, library, sinks, status, ctxLast, regVars>>

StatementOutcome(res) ==
    /\ data' = res.data
    /\ visitLast' = Visited(Current, Top.r, res.result, Nil)
    /\ IF res.result = "ok"
       THEN /\ status' = status
            /\ stack' = Advance
       ELSE /\ status' = res.result
            /\ stack' = <<>>
    /\ UNCHANGED <<RootNode, library, renderers, sinks, parent, ctxLast, regVars>>

\* case *nodes.StatementBlock holding an ImportStmt
StepImportStmt ==
    /\ Visiting("StatementBlock")
    /\ Current.Stmt.kind = "ImportStmt"
    /\ \E order \in Orders(DOMAIN library.macros) :
         StatementOutcome(ImportExecute(data, parent, renderers, Top.r, Current.Stmt,
                                        library, order))

\* case *nodes.StatementBlock holding a FromImportStmt
StepFromImportStmt ==
    /\ Visiting("StatementBlock")
    /\ Current.Stmt.kind = "FromImportStmt"
    /\ \E order \in Orders(DOMAIN Current.Stmt.As) :
         StatementOutcome(FromImportExecute(data, parent, renderers, Top.r, Current.Stmt,
                                            library, order))

\* default case: Visit returns the renderer and Walk goes on to the children
StepDefault ==
    /\ Visiting("Wrapper")
    /\ stack' = Append(Advance, [r |-> Top.r, todo |-> Current.Nodes])
    /\ visitLast' = Visited(Current, Top.r, "ok", Nil)
    /\ UNCHANGED <<RootNode, library, renderers, sinks, status, ctxVars, regVars>>

\* Walk returns to its caller once the children are done; the outermost
\* return ends Execute
WalkReturn ==
    /\ status = "running"
    /\ Top.todo = <<>>
    /\ stack' = SubSeq(stack, 1, Len(stack) - 1)
    /\ status' = IF Len(stack) = 1 THEN "done" ELSE status
    /\ UNCHANGED <<RootNode, library, renderers, sinks, visitLast, ctxVars, regVars>>

(***************************************************************************)
(* The inputs of a render: templates, the library file, the data context.  *)
(***************************************************************************)
LibFile == <<"l", "i", "b">>
Unresolvable == <<"?">>
Int1 == [kind |-> "int", v |-> 1]

Scope(nodes) == StatementBlock(ScopeStmt(nodes), Nil)

DataA == Data(<<"A">>, FALSE, FALSE)
DataC == Data(<<"C">>, FALSE, FALSE)
OutputB == Output(Nil, Literal(ValString(<<"B">>)), Nil)
OutputError == Output(Nil, Literal(ValError), Nil)
CoreLeaves == {DataA, OutputB, DataC, OutputError}

\* every sequence of nodes made of n nodes in all, the nodes of nested scopes counted
RECURSIVE Forests(_)
Trees(n) ==
    IF n = 1 THEN CoreLeaves \cup {Scope(<<>>)}
    ELSE {Scope(f) : f \in Forests(n - 1)}
Forests(n) ==
    IF n = 0 THEN {<<>>}
    ELSE UNION {{<<t>> \o f : t \in Trees(m), f \in Forests(n - m)} : m \in 1..n}

CoreTemplates ==
    {Template(f, Nil) : f \in UNION {Forests(n) : n \in 0..MaxNodes}}
    \cup {Template(<<DataC>>, Template(f, Nil)) : f \in Forests(1) \cup Forests(2)}
    \cup {Template(<<>>, Template(<<DataA>>, Template(<<OutputB, DataC>>, Nil)))}
    \cup {Template(<<Wrapper(f), DataC>>, Nil) : f \in Forests(1) \cup Forests(2)}
    \cup {Template(<<DataA, Scope(<<Wrapper(f)>>)>>, Nil) : f \in Forests(1) \cup Forests(2)}

Conditions ==
    {Nil} \cup {Literal(v) : v \in {ValNil, ValBool(TRUE), ValBool(FALSE), ValError,
                                    ValString(<<>>), ValString(<<"B">>), ValNumber(0)}}
Expressions ==
    {Literal(v) : v \in {ValString(<<"B">>), ValString(<<"<", "b", ">">>),
                         ValSafe(<<"<", "b", ">">>), ValNumber(7), ValBool(TRUE),
                         ValNil, ValError}}
Alternatives ==
    {Nil} \cup {Literal(v) : v \in {ValString(<<"&">>), ValSafe(<<"&">>), ValError}}
OutputNodes == {Output(c, e, a) : c \in Conditions, e \in Expressions, a \in Alternatives}
DataNodes ==
    {Data(t, l, r) : t \in {<<" ", "A", "\n">>, <<"\t", " ">>, <<"A", " ", "B">>},
                     l \in BOOLEAN, r \in BOOLEAN}
PlainNodes ==
    OutputNodes \cup DataNodes \cup {Comment, Wrapper(<<DataA>>), StatementBlock(NotAStatement, Nil)}
PlainTemplates ==
    {Template(<<n>>, Nil) : n \in PlainNodes}
    \cup {Template(<<Scope(<<n>>)>>, Nil) : n \in PlainNodes}
    \cup {Template(<<DataA, n, DataC>>, Nil) : n \in PlainNodes}

FilenameExpressions ==
    {Literal(ValString(LibFile)), Literal(ValString(<<"m">>)),
     Literal(ValString(Unresolvable)), Literal(ValError)}
Clauses == [name : MacroNames, alias : {"", "bar", "x"}]
ClauseLists == UNION {[1..n -> Clauses] : n \in 1..MaxClauses}
ImportNodes ==
    {StatementBlock(ImportStmt(f, as, wc), Nil) :
        f \in FilenameExpressions, as \in {"L", "foo"}, wc \in BOOLEAN}
FromImportNodes ==
    {StatementBlock(FromParser(f, cl, md), [kind |-> "from", clauses |-> cl]) :
        f \in FilenameExpressions, cl \in ClauseLists, md \in {"none", "with"}}
ImportTemplates ==
    {Template(<<n>>, Nil) : n \in ImportNodes \cup FromImportNodes}
    \cup {Template(<<Scope(<<n>>)>>, Nil) : n \in ImportNodes \cup FromImportNodes}

\* a macro whose default argument evaluates, and one whose default is an Error
MacroKwargs == {<<Literal(ValNumber(7))>>, <<Literal(ValError)>>}
MacroTables ==
    UNION {{[n \in names |-> Macro(n, kw[n])] : kw \in [names -> MacroKwargs]} :
           names \in SUBSET MacroNames}
Library(macros) == [file |-> LibFile, macros |-> macros, unresolvable |-> {Unresolvable}]

(***************************************************************************)
(* Specifications                                                          *)
(***************************************************************************)
ContextAtRest ==
    /\ data = <<EmptyMap>>
    /\ parent = <<0>>
    /\ ctxLast = NoCtxOp

RegistriesAtRest ==
    /\ Filters = EmptyMap
    /\ Statements = EmptyMap
    /\ Tests = EmptyMap
    /\ regLast = NoRegOp

RenderAtRest ==
    /\ RootNode = Template(<<>>, Nil)
    /\ library = Library(EmptyMap)
    /\ renderers = <<>>
    /\ sinks = <<>>
    /\ stack = <<>>
    /\ status = "idle"
    /\ visitLast = NoVisit

\* a client that builds one chain of frames: NewContext, then Inherit and Set
InitChain ==
    /\ \E m \in MapsOver(Names, IntValues) :
         LET n == NewContext(<<>>, <<>>, m) IN data = n.data /\ parent = n.parent
    /\ ctxLast = NoCtxOp
    /\ RegistriesAtRest
    /\ RenderAtRest
NextChain == CtxInherit \/ CtxSet
SpecChain == InitChain /\ [][NextChain]_vars

\* a client that builds any frames with NewContext, Inherit and Set, starting
\* from one EmptyContext, and then merges one of them into another with Update
InitContext == ContextAtRest /\ RegistriesAtRest /\ RenderAtRest
NextContext == CtxNewContext \/ CtxInherit \/ CtxSet \/ CtxUpdate
SpecContext == InitContext /\ [][NextContext]_vars

\* a client of the registries: three empty registries to start with
InitRegistry == ContextAtRest /\ RegistriesAtRest /\ RenderAtRest
NextRegistry ==
    \/ FilterRegister \/ FilterReplace \/ FilterUpdate
    \/ StatementRegister \/ StatementReplace \/ StatementUpdate
    \/ TestRegister \/ TestReplace \/ TestUpdate
SpecRegistry == InitRegistry /\ [][NextRegistry]_vars

\* one render: the state NewRenderer leaves for a template, a configuration,
\* a data context and one output builder
InitRender ==
    /\ RegistriesAtRest
    /\ \E ctx \in {EmptyMap, MapSet(EmptyMap, "foo", Int1)}, ae \in BOOLEAN :
         LET c == NewContext(<<>>, <<>>, ctx)
             r == NewRenderer(c.data, c.parent, c.frame, 1, [AutoEscape |-> ae]) IN
         /\ data = r.data
         /\ parent = c.parent
         /\ ctxLast = NoCtxOp
         /\ renderers = r.renderers
         /\ \/ /\ ctx = EmptyMap
               /\ RootNode \in CoreTemplates \cup PlainTemplates
               /\ library = Library(EmptyMap)
            \/ /\ ctx # EmptyMap
               /\ ~ae
               /\ RootNode \in ImportTemplates
               /\ library \in {Library(m) : m \in MacroTables}
    /\ sinks = <<<<>>>>
    /\ stack = <<>>
    /\ status = "ready"
    /\ visitLast = NoVisit
NextRender ==
    \/ Execute
    \/ StepComment \/ StepData \/ StepOutput
    \/ StepNotAStatement \/ StepScopeStmt \/ StepImportStmt \/ StepFromImportStmt
    \/ StepDefault
    \/ WalkReturn
SpecRender == InitRender /\ [][NextRender]_vars

(***************************************************************************)
(* Properties of Context                                                   *)
(***************************************************************************)
\* the proper ancestors of a frame
RECURSIVE Ancestors(_, _)
Ancestors(p, c) == IF p[c] = 0 THEN {} ELSE {p[c]} \cup Ancestors(p, p[c])

\* a frame and its ancestors, nearest first
RECURSIVE Chain(_, _)
Chain(p, c) == IF p[c] = 0 THEN <<c>> ELSE <<c>> \o Chain(p, p[c])

\* what a lookup must give: the binding of the nearest frame of the chain that has one
NearestBinding(d, p, c, name) ==
    LET chain == Chain(p, c)
        hits == {i \in DOMAIN chain : name \in DOMAIN d[chain[i]]} IN
    IF hits = {} THEN [value |-> Nil, found |-> FALSE]
    ELSE LET i == CHOOSE h \in hits : \A g \in hits : h <= g IN
         [value |-> d[chain[i]][name], found |-> TRUE]

\* m1 overwritten by every entry of m2
Overwrite(m1, m2) ==
    [k \in (DOMAIN m1) \cup (DOMAIN m2) |-> IF k \in DOMAIN m2 THEN m2[k] ELSE m1[k]]

\* the step from the current state is c.Set(name, value)
IsSetStep(c, name, value) == parent' = parent /\ data' = Set(data, parent, c, name, value)

\* C1: Set(name, v) on a frame changes only that frame's local mapping:
\* afterwards Get(name) on the frame gives (v, true), and Get and Has of every
\* name on every ancestor frame give what they gave before the Set.
C1_SetIsLocal ==
    [][\A c \in Frames(data), name \in Names, value \in IntValues :
          IsSetStep(c, name, value) =>
             /\ Get(data', parent', c, name) = [value |-> value, found |-> TRUE]
             /\ \A f \in Ancestors(parent, c), n \in Names :
                   /\ Get(data', parent', f, n) = Get(data, parent, f, n)
                   /\ Has(data', parent', f, n) = Has(data, parent, f, n)]_vars

\* C1 witness: a frame filled by Set shadows a binding of one of its ancestors
\* with another value, and the ancestor still has its own
C1_Witness ==
    \E c \in Frames(data) : \E f \in Ancestors(parent, c) : \E n \in Names :
        /\ n \in DOMAIN data[c]
        /\ n \in DOMAIN data[f]
        /\ data[c][n] # data[f][n]
        /\ Get(data, parent, c, n).value = data[c][n]
        /\ Get(data, parent, f, n).value = data[f][n]

\* C2: for every frame and name, Get gives (value, true) with the binding of
\* the nearest frame of the chain that binds the name, (nil, false) when no
\* frame of the chain binds it, and Has is true exactly when Get finds it.
C2_LookupChain ==
    \A c \in Frames(data), name \in Names :
        /\ Get(data, parent, c, name) = NearestBinding(data, parent, c, name)
        /\ Has(data, parent, c, name) = Get(data, parent, c, name).found

\* C2 witness: a 3-level chain where a name bound only at the root is found
\* from the leaf, and another name bound nowhere is not found
C2_Witness ==
    \E c \in Frames(data) :
        /\ parent[c] # 0
        /\ parent[parent[c]] # 0
        /\ \E n \in Names, m \in Names :
              /\ n \notin DOMAIN data[c]
              /\ n \notin DOMAIN data[parent[c]]
              /\ n \in DOMAIN data[parent[parent[c]]]
              /\ Get(data, parent, c, n).found
              /\ ~Has(data, parent, c, m)
              /\ Get(data, parent, c, m) = [value |-> Nil, found |-> FALSE]

\* the parts of C3 that do not depend on which frames are left alone
UpdateCopiesLocalOnly(a, b, pre) ==
    /\ data[a] = Overwrite(pre[a], pre[b])
    /\ \A y \in Names :
          (/\ \E f \in Ancestors(parent, b) : y \in DOMAIN pre[f]
           /\ y \notin DOMAIN pre[b]
           /\ ~Has(pre, parent, a, y))
          => ~Has(data, parent, a, y)

\* C3 as stated: a.Update(b) overwrites a's local mapping with b's local
\* entries, copies nothing from b's ancestors, and leaves b, b's ancestors and
\* a's ancestors unchanged.
C3_UpdateAsStated ==
    ctxLast.op = "Update" =>
        LET a == ctxLast.ctx
            b == ctxLast.other IN
        /\ UpdateCopiesLocalOnly(a, b, ctxLast.pre)
        /\ \A f \in {b} \cup Ancestors(parent, b) \cup Ancestors(parent, a) :
              data[f] = ctxLast.pre[f]

\* C3 amended: a.Update(b) overwrites a's local mapping with b's local
\* entries, copies nothing from b's ancestors, and leaves every frame other
\* than a unchanged (a itself changes also when it is an ancestor of b).
C3_UpdateLocalOnly ==
    ctxLast.op = "Update" =>
        LET a == ctxLast.ctx
            b == ctxLast.other IN
        /\ UpdateCopiesLocalOnly(a, b, ctxLast.pre)
        /\ DOMAIN data = DOMAIN ctxLast.pre
        /\ \A f \in Frames(data) \ {a} : data[f] = ctxLast.pre[f]

\* C3 witness: a.Update(b) was made where b's parent binds a name that b does
\* not and that a did not see, and b's local entry overwrote another value in a
C3_Witness ==
    /\ ctxLast.op = "Update"
    /\ LET a == ctxLast.ctx
           b == ctxLast.other IN
       /\ a # b
       /\ parent[b] # 0
       /\ \E y \in Names :
             /\ y \in DOMAIN data[parent[b]]
             /\ y \notin DOMAIN data[b]
             /\ ~Has(ctxLast.pre, parent, a, y)
             /\ ~Has(data, parent, a, y)
       /\ \E x \in DOMAIN data[b] :
             /\ x \in DOMAIN ctxLast.pre[a]
             /\ ctxLast.pre[a][x] # data[b][x]
             /\ data[a][x] = data[b][x]

(***************************************************************************)
(* Properties of the registries                                            *)
(***************************************************************************)
Registry(set) ==
    CASE set = "Filters" -> Filters
      [] set = "Statements" -> Statements
      [] set = "Tests" -> Tests

\* the registry is the one before with name -> fn added or put in place of the old entry
IsWith(cur, pre, name, fn) ==
    /\ DOMAIN cur = (DOMAIN pre) \cup {name}
    /\ cur[name] = fn
    /\ \A k \in (DOMAIN pre) \ {name} : cur[k] = pre[k]

IsPrefix(s, t) == Len(s) <= Len(t) /\ SubSeq(t, 1, Len(s)) = s
Range(q) == {q[i] : i \in DOMAIN q}

\* the sink of the renderer of the last visit, now and before the visit
SinkNow == sinks[renderers[visitLast.r].Output]
SinkBefore == visitLast.pre.sinks[renderers[visitLast.r].Output]

\* C5: visiting an Output node: an Error condition fails the visit, writes
\* nothing and evaluates neither expression; a truthy condition renders the
\* primary expression; a Nil or falsy condition renders the alternative if
\* there is one and otherwise succeeds writing nothing; without a condition
\* the primary expression is rendered; an Error value of the chosen
\* expression fails the visit and writes nothing.
C5_ConditionalOutput ==
    visitLast.kind = "Output" =>
        LET n == visitLast.node
            out == visitLast.out
            failed == visitLast.result = "error" /\ status = "error"
            succeeded == visitLast.result = "ok" /\ status \in {"running", "done"}
            withCondition == n.Condition # Nil
            truthy == ~IsNil(n.Condition.val) /\ IsTrue(n.Condition.val)
            rendered(e) ==
                /\ out.value = e.val
                /\ IF IsError(e.val) THEN failed /\ SinkNow = SinkBefore
                   ELSE /\ succeeded
                        /\ \/ SinkNow = SinkBefore \o String(e.val)
                           \/ SinkNow = SinkBefore \o Escaped(e.val) IN
        /\ failed \/ succeeded
        /\ withCondition /\ IsError(n.Condition.val) =>
              failed /\ SinkNow = SinkBefore /\ Range(out.evals) = {"Condition"}
        /\ withCondition /\ ~IsError(n.Condition.val) /\ truthy =>
              rendered(n.Expression) /\ "Alternative" \notin Range(out.evals)
        /\ withCondition /\ ~IsError(n.Condition.val) /\ ~truthy /\ n.Alternative # Nil =>
              rendered(n.Alternative) /\ "Expression" \notin Range(out.evals)
        /\ withCondition /\ ~IsError(n.Condition.val) /\ ~truthy /\ n.Alternative = Nil =>
              succeeded /\ SinkNow = SinkBefore /\ Range(out.evals) = {"Condition"}
        /\ ~withCondition =>
              rendered(n.Expression) /\ Range(out.evals) = {"Expression"}

\* C5 witness: a falsy condition without alternative: the visit succeeded and
\* wrote nothing, after something was written before it
C5_Witness ==
    /\ visitLast.kind = "Output"
    /\ visitLast.node.Condition = Literal(ValBool(FALSE))
    /\ visitLast.node.Alternative = Nil
    /\ visitLast.result = "ok"
    /\ SinkNow = <<"A">>

\* C6: the escaped form of the chosen value is written if and only if
\* AutoEscape is on, the value is a string and the value is not safe; in
\* every other combination the raw string form is written.
C6_AutoEscape ==
    visitLast.kind = "Output" /\ visitLast.out.form # "none" =>
        LET v == visitLast.out.value
            escape == /\ renderers[visitLast.r].Config.AutoEscape
                      /\ IsString(v)
                      /\ ~v.safe IN
        /\ visitLast.out.form = (IF escape THEN "escaped" ELSE "raw")
        /\ SinkNow = SinkBefore \o (IF escape THEN Escaped(v) ELSE String(v))

\* C6 witness: with AutoEscape on, the unsafe string "<b>" was written escaped
C6_Witness ==
    /\ visitLast.kind = "Output"
    /\ renderers[visitLast.r].Config.AutoEscape
    /\ visitLast.out.value = ValString(<<"<", "b", ">">>)
    /\ SinkNow = SinkBefore \o <<"&", "l", "t", ";", "b", "&", "g", "t", ";">>

(***************************************************************************)
(* Properties of the output order                                          *)
(***************************************************************************)
\* whether an import statement goes through, from the statement and the library
ImportSucceeds(stmt, lib) ==
    LET f == IF stmt.kind = "ImportStmt" THEN stmt.filenameExpression.val
             ELSE stmt.FilenameExpression.val
        needed == IF stmt.kind = "ImportStmt" THEN DOMAIN lib.macros
                  ELSE {stmt.As[a] : a \in DOMAIN stmt.As} IN
    /\ ~IsError(f)
    /\ String(f) = lib.file
    /\ \A m \in needed :
          /\ m \in DOMAIN lib.macros
          /\ \A i \in DOMAIN lib.macros[m].Kwargs : ~IsError(lib.macros[m].Kwargs[i].val)

\* the text a sequence of nodes gives in document order, up to the first
\* node that fails, and whether none fails
RECURSIVE ExpectedNodes(_, _, _)
ExpectedNode(n, config, lib) ==
    CASE n.kind = "Data" -> [text |-> DataOutput(n), ok |-> TRUE]
      [] n.kind = "Output" ->
            LET res == VisitOutput(config, n) IN [text |-> res.text, ok |-> res.err = NoError]
      [] n.kind = "Wrapper" -> ExpectedNodes(n.Nodes, config, lib)
      [] n.kind = "StatementBlock" /\ n.Stmt.kind = "ScopeStmt" ->
            ExpectedNodes(n.Stmt.wrapper.Nodes, config, lib)
      [] n.kind = "StatementBlock" /\ n.Stmt.kind \in {"ImportStmt", "FromImportStmt"} ->
            [text |-> <<>>, ok |-> ImportSucceeds(n.Stmt, lib)]
      [] OTHER -> [text |-> <<>>, ok |-> TRUE]
ExpectedNodes(nodes, config, lib) ==
    IF nodes = <<>> THEN [text |-> <<>>, ok |-> TRUE]
    ELSE LET first == ExpectedNode(Head(nodes), config, lib) IN
         IF ~first.ok THEN first
         ELSE LET rest == ExpectedNodes(Tail(nodes), config, lib) IN
              [text |-> first.text \o rest.text, ok |-> rest.ok]

\* the renderer that created r with Inherit: the one of the parent frame
Creators(r) == {q \in DOMAIN renderers : renderers[q].Context = parent[renderers[r].Context]}

\* C7: every sub-renderer writes to the Output of its creator, the sink only
\* grows, and its content is the text of the nodes in document order, nested
\* scopes in place: all of it when the render is done, the part before the
\* failing node when it fails.
C7_OutputOrder ==
    LET out == renderers[1].Output
        expected == ExpectedNodes(RootOf(RootNode).Nodes, renderers[1].Config, library) IN
    /\ \A r \in DOMAIN renderers : \A q \in Creators(r) :
          renderers[r].Output = renderers[q].Output
    /\ DOMAIN sinks = {out}
    /\ visitLast.kind # "none" => IsPrefix(visitLast.pre.sinks[out], sinks[out])
    /\ IsPrefix(sinks[out], expected.text)
    /\ status = "done" => expected.ok /\ sinks[out] = expected.text
    /\ status \in {"error", "panic"} => ~expected.ok /\ sinks[out] = expected.text

\* C7 witness: a render that went through a nested scope is done and gave "ABC"
C7_Witness ==
    /\ status = "done"
    /\ RootNode = Template(<<DataA, Scope(<<OutputB>>), DataC>>, Nil)
    /\ Len(renderers) = 2
    /\ sinks[renderers[1].Output] = <<"A", "B", "C">>

(***************************************************************************)
(* Properties of the import statements                                     *)
(***************************************************************************)
LastStmt == visitLast.node.Stmt
Executed(kind) == visitLast.kind = "StatementBlock" /\ LastStmt.kind = kind

\* the frame of the renderer that executed the last statement, now and before
FrameNow == data[renderers[visitLast.r].Context]
FrameBefore == visitLast.pre.data[renderers[visitLast.r].Context]

\* the callable the current renderer builds from a macro of the library
Callable(name) ==
    [kind |-> "macro",
     node |-> IF name \in DOMAIN library.macros THEN library.macros[name] ELSE Nil,
     renderer |-> visitLast.r]

\* the bindings of the frame outside keys are what they were
SameOutside(keys) ==
    /\ (DOMAIN FrameNow) \ keys = (DOMAIN FrameBefore) \ keys
    /\ \A k \in (DOMAIN FrameNow) \ keys : FrameNow[k] = FrameBefore[k]

\* every frame but the current one is what it was
OtherFramesSame ==
    /\ DOMAIN data = DOMAIN visitLast.pre.data
    /\ \A f \in DOMAIN data :
          f # renderers[visitLast.r].Context => data[f] = visitLast.pre.data[f]

\* C8: when ImportStmt.Execute or FromImportStmt.Execute returns an error,
\* the local frame of the current Context is exactly what it was before.
C8_NoBindingOnFailure ==
    (Executed("ImportStmt") \/ Executed("FromImportStmt")) /\ visitLast.result = "error" =>
        FrameNow = FrameBefore

\* C9: after a successful ImportStmt.Execute with alias L the local frame
\* differs from before in the key L only, bound to a mapping with one
\* callable for every macro of the loaded template and nothing else; no macro
\* name is bound to its macro in the scope, and the other frames are unchanged.
C9_ImportBindsAlias ==
    Executed("ImportStmt") /\ visitLast.result = "ok" =>
        /\ LastStmt.as \in DOMAIN FrameNow
        /\ SameOutside({LastStmt.as})
        /\ OtherFramesSame
        /\ FrameNow[LastStmt.as].kind = "macros"
        /\ DOMAIN FrameNow[LastStmt.as].table = DOMAIN library.macros
        /\ \A m \in DOMAIN library.macros : FrameNow[LastStmt.as].table[m] = Callable(m)
        /\ \A m \in DOMAIN library.macros : m \in DOMAIN FrameNow => FrameNow[m] # Callable(m)

\* C9 witness: an import as L of a library of two macros went through in a
\* nested scope where foo was bound only in the parent frame
C9_Witness ==
    /\ Executed("ImportStmt")
    /\ visitLast.result = "ok"
    /\ LastStmt.as = "L"
    /\ DOMAIN library.macros = {"foo", "bar"}
    /\ parent[renderers[visitLast.r].Context] # 0
    /\ DOMAIN FrameNow = {"L"}

\* the clauses the last from-import was parsed from, and the name each binds
Requested == visitLast.node.src.clauses
AliasOf(c) == IF c.alias # "" THEN c.alias ELSE c.name
Aliases == {AliasOf(Requested[i]) : i \in DOMAIN Requested}

\* what a successful from-import leaves outside the requested aliases
BindsAliasesOnly ==
    /\ Aliases \subseteq DOMAIN FrameNow
    /\ SameOutside(Aliases)
    /\ OtherFramesSame
    /\ \A i \in DOMAIN Requested :
          /\ Requested[i].alias # ""
          /\ Requested[i].name \notin Aliases
          => (/\ Requested[i].name \in DOMAIN FrameNow <=> Requested[i].name \in DOMAIN FrameBefore
              /\ Requested[i].name \in DOMAIN FrameNow =>
                    FrameNow[Requested[i].name] = FrameBefore[Requested[i].name])

\* C10 as stated: after a successful FromImportStmt.Execute every requested
\* (name, alias) pair has alias (the name when there is no alias) bound to the
\* callable of the macro called name, the keys bound or changed are the
\* aliases, and "foo as bar" binds bar and not foo.
C10_FromImportAsStated ==
    Executed("FromImportStmt") /\ visitLast.result = "ok" =>
        /\ BindsAliasesOnly
        /\ \A i \in DOMAIN Requested :
              FrameNow[AliasOf(Requested[i])] = Callable(Requested[i].name)

\* C10 amended: after a successful FromImportStmt.Execute every requested
\* alias (the name when there is no alias) is bound to the callable of the
\* macro named by the last clause that requests that alias, the keys bound or
\* changed are the aliases, and "foo as bar" binds bar and not foo.
C10_FromImportLastWins ==
    Executed("FromImportStmt") /\ visitLast.result = "ok" =>
        /\ BindsAliasesOnly
        /\ \A i \in DOMAIN Requested :
              (\A j \in DOMAIN Requested : j > i => AliasOf(Requested[j]) # AliasOf(Requested[i]))
              => FrameNow[AliasOf(Requested[i])] = Callable(Requested[i].name)

\* C10 witness: "from lib import foo as bar" went through where foo was bound
\* before: bar is the macro foo, and foo is what it was
C10_Witness ==
    /\ Executed("FromImportStmt")
    /\ visitLast.result = "ok"
    /\ Requested = <<[name |-> "foo", alias |-> "bar"]>>
    /\ FrameNow["bar"] = Callable("foo")
    /\ FrameNow["foo"] = Int1

====
